---- MODULE Spec2Model ----
(***************************************************************************)
(* MarketSim: the matching engine (Market::process_aggressive_order,       *)
(* Market::process_orders), the tick scheduler (Market::tick) and the      *)
(* population evolution (Market::evolve_traders).                          *)
(*                                                                         *)
(* Prices and quantities are doubles in the source; the model draws them   *)
(* from small integer ranges.  A quotient of two doubles is kept as the    *)
(* pair <<numerator, denominator>>.                                        *)
(***************************************************************************)
EXTENDS Integers, Sequences, FiniteSets, TLC

(***************************************************************************)
(* Bounds of the model.                                                    *)
(***************************************************************************)
\* number of calls of tick() in a run (main.cpp runs 50000)
MaxTick == 3
\* largest quantity a trader asks for
MaxQty == 1
\* largest limit price a trader asks for (the smallest is 1)
MaxPrice == 2
\* number of BUY/SELL orders the traders submit in a run with evolution enabled (one
\* more with evolution disabled); further decisions are HOLD
MaxOrders == 2
\* largest gain of a trader's cash over the default, in the rosters evolve_traders is
\* applied to on its own
MaxGain == 2

(***************************************************************************)
(* Configuration (params.json, read by load_initial_state) and program     *)
(* constants.                                                              *)
(***************************************************************************)
initial_price == 2
max_order_age == 1
evolution_ticks == 2
\* kill_percentage, in percent
kill_percentage == 50
num_monkeys == 2
num_mreverters == 1
num_momtraders == 1
num_mmakers == 1
\* MarketMaker::spread
spread == 2
\* MarketMaker::quote: double size = 10.00
mm_size == 10
\* init_market_makers: int id = 100000
mm_first_id == 100000
\* Trader::cash, Trader::position defaults
default_cash == 100000
default_position == 10
\* std::numeric_limits<double>::max(), returned by get_best_ask on an empty side
DBL_MAX == 1000000000

VARIABLES
    timestep,            \* Market::timestep
    evolve,              \* Market::evolve, set from the configuration
    market_price,        \* Market::market_price
    buys,                \* Market::buys: price level -> FIFO queue, best = highest
    sells,               \* Market::sells: price level -> FIFO queue, best = lowest
    traders,             \* Market::traders: the roster, the Trader objects in slot order
    trade_history,       \* Market::trade_history
    tick_history,        \* Market::tick_history
    total_trade_volume,  \* Market::total_trade_volume
    total_price_volume,  \* Market::total_price_volume
    pc,                  \* where tick() stands
    idx,                 \* loop index of tick()'s current for loop
    quotes,              \* tick()'s local `quotes` still to be submitted
    events,              \* history: the loop iterations of the last matching call
    submitted,           \* history: every BUY/SELL order of a quantity > 0, as submitted
    filled,              \* history: per submitted order, the quantity traded so far
    evolution,           \* history: the last evolution event (its ranking and kills)
    acted,               \* history: the owners of the orders tick() has passed on so far
    last                 \* history: the last call of process_aggressive_order in this tick

vars == <<timestep, evolve, market_price, buys, sells, traders, trade_history, tick_history,
          total_trade_volume, total_price_volume, pc, idx, quotes, events,
          submitted, filled, evolution, acted, last>>

Min(a, b) == IF a <= b THEN a ELSE b
SetMin(S) == CHOOSE x \in S : \A y \in S : x <= y
SetMax(S) == CHOOSE x \in S : \A y \in S : x >= y

TraderTypes == {"Monkey", "MeanReverter", "MomentumTrader"}
NumTraders == num_monkeys + num_mreverters + num_momtraders

(***************************************************************************)
(* Order book: std::map<double, std::queue<Order>>.  A side is a function  *)
(* from its levels (the keys present in the map) to queues.                *)
(***************************************************************************)
EmptyBook == [p \in {} |-> <<>>]

\* map::erase(it)
Erase(side, p) == [x \in (DOMAIN side) \ {p} |-> side[x]]

\* it->second.pop()
QueuePop(side, p) == [side EXCEPT ![p] = Tail(@)]

\* if (it->second.empty()) side.erase(it)
EraseIfEmpty_NoErase(side, p) == side
EraseIfEmpty(side, p) == IF side[p] = <<>> THEN Erase(side, p) ELSE side

\* side[order.price].push(order): operator[] creates the level when absent
Push(side, order) ==
    IF order.price \in DOMAIN side
    THEN [side EXCEPT ![order.price] = Append(@, order)]
    ELSE side @@ (order.price :> <<order>>)

\* side[resting.price].push(resting): the remainder of a partly filled resting order
\* goes back into the queue of its level
Requeue_Front(side, order) ==
    IF order.price \in DOMAIN side
    THEN [side EXCEPT ![order.price] = <<order>> \o @]
    ELSE side @@ (order.price :> <<order>>)
Requeue(side, order) == Push(side, order)

\* the queue of a level, empty when the level is absent
QueueAt(side, p) == IF p \in DOMAIN side THEN side[p] ELSE <<>>

\* buys.begin()->first (std::greater), sells.begin()->first
BestBidLevel(b) == SetMax(DOMAIN b)
BestAskLevel(s) == SetMin(DOMAIN s)

\* Market::get_best_bid, Market::get_best_ask
get_best_bid(b) == IF DOMAIN b = {} THEN 0 ELSE BestBidLevel(b)
get_best_ask(s) == IF DOMAIN s = {} THEN DBL_MAX ELSE BestAskLevel(s)

\* every order resting on a side
RestingOrders(side) == UNION {{side[p][i] : i \in 1..Len(side[p])} : p \in DOMAIN side}

(***************************************************************************)
(* Ledger.                                                                 *)
(***************************************************************************)
\* trader_map.find(id): the roster slots holding the object with that id
\* (trader_map and the roster share the Trader objects); {} is end()
trader_map_find(trs, id) == {i \in 1..Len(trs) : trs[i].trader_id = id}

\* Trader::update_position, on one Trader object
update_position(t, type, price, quantity) ==
    IF type = "BUY"
    THEN [t EXCEPT !.cash = @ - price, !.position = @ + quantity]
    ELSE [t EXCEPT !.cash = @ + price, !.position = @ - quantity]

\* if (it != trader_map.end()) it->second->update_position(...)
UpdateLedger(trs, id, type, price, quantity) ==
    [i \in 1..Len(trs) |->
        IF i \in trader_map_find(trs, id)
        THEN update_position(trs[i], type, price, quantity)
        ELSE trs[i]]

\* Trader::get_value
get_value(t, price) == t.position * price + t.cash

\* Order{type, price, trader_id, timestep, trader_type, position_size}; oid is the
\* history index of the order in `submitted` (0: an order that asks for nothing), born
\* the value of Market::timestep when the order is passed to the matching engine
MakeOrder(type, price, id, ts, trader_type, size) ==
    [type |-> type, price |-> price, trader_id |-> id, timestep |-> ts,
     trader_type |-> trader_type, position_size |-> size, oid |-> 0, born |-> 0]

(***************************************************************************)
(* Matching engine: Market::process_aggressive_order.                      *)
(* The procedure works on a record m of the fields it reads and writes;    *)
(* m.rem is the local remaining_order.                                     *)
(***************************************************************************)
\* if (remaining_order.trader_id == resting.trader_id)
SelfTrade_Never(incoming, resting) == FALSE
SelfTrade(incoming, resting) == incoming.trader_id = resting.trader_id

\* if (timestep - resting.timestep > max_order_age)
Stale_Never(resting) == FALSE
Stale(resting) == timestep - resting.timestep > max_order_age

\* double trade_price = resting.price
TradePrice_Taker(incoming, resting) == incoming.price
TradePrice(incoming, resting) == resting.price

\* double quantity = std::min(remaining_order.position_size, resting.position_size)
TradeQuantity_One(incoming, resting) == 1
TradeQuantity_Maker(incoming, resting) == resting.position_size
TradeQuantity(incoming, resting) == Min(incoming.position_size, resting.position_size)

\* market_price = trade_price
MarketPriceAfter_Keep(price, trade_price) == price
MarketPriceAfter(price, trade_price) == trade_price

\* if (resting.position_size > 0) side[resting.price].push(resting)
ShouldRequeue(resting) == resting.position_size > 0

\* if (remaining_order.position_size > 0) side[remaining_order.price].push(remaining_order)
ShouldRest_Always(remaining) == TRUE
ShouldRest_Never(remaining) == FALSE
ShouldRest_NonNegative(remaining) == remaining.position_size >= 0
ShouldRest(remaining) == remaining.position_size > 0

\* the side the incoming order matches against, and its best level
OppositeSide(m) == IF m.rem.type = "BUY" THEN m.sells ELSE m.buys
OppositeBest(m) ==
    IF m.rem.type = "BUY" THEN BestAskLevel(m.sells) ELSE BestBidLevel(m.buys)
SetOpposite(m, side) ==
    IF m.rem.type = "BUY" THEN [m EXCEPT !.sells = side] ELSE [m EXCEPT !.buys = side]

\* the while condition, but for the quantity: !side.empty() && price crosses the best
Crosses_Strict(m) ==
    /\ DOMAIN OppositeSide(m) # {}
    /\ IF m.rem.type = "BUY" THEN m.rem.price > OppositeBest(m)
                             ELSE m.rem.price < OppositeBest(m)
Crosses(m) ==
    /\ DOMAIN OppositeSide(m) # {}
    /\ IF m.rem.type = "BUY" THEN m.rem.price >= OppositeBest(m)
                             ELSE m.rem.price <= OppositeBest(m)

\* the while condition
LoopCond(m) == Crosses(m) /\ m.rem.position_size > 0

\* the ledgers, the market price and the number of trades: what a discard leaves alone
Effects(m) == [traders |-> m.traders, market_price |-> m.market_price,
               ntrades |-> Len(m.trade_history)]

\* Trade trade = {trade_price, quantity, buyer id, seller id, timestep, buyer type, seller type}
MakeTrade(price, quantity, buy, sell) ==
    [price |-> price, quantity |-> quantity, buyer_id |-> buy.trader_id,
     seller_id |-> sell.trader_id, timestep |-> timestep,
     buyer_type |-> buy.trader_type, seller_type |-> sell.trader_type]

AddFilled(f, oid, quantity) ==
    IF oid \in DOMAIN f THEN [f EXCEPT ![oid] = @ + quantity] ELSE f

\* side.begin()->second.pop(); if (...empty()) side.erase(...); continue;
\* the discard of the front order, `popped` being the other side without it
Discard_Consume(m, popped) ==
    [SetOpposite(m, popped) EXCEPT !.rem.position_size = 0]
Discard(m, popped) == SetOpposite(m, popped)

\* one iteration of the while loop
MatchStep(m) ==
    LET opp == OppositeSide(m)
        p == OppositeBest(m)
        resting == Head(opp[p])
        popped == EraseIfEmpty(QueuePop(opp, p), p)
        ev == [kind |-> "none", taker |-> m.rem, maker |-> resting, level |-> opp[p],
               now |-> timestep, trade |-> 0, buyer_found |-> FALSE,
               seller_found |-> FALSE, rem_after |-> m.rem, level_after |-> <<>>,
               before |-> Effects(m), after |-> Effects(m)]
    IN  IF SelfTrade(m.rem, resting)
        THEN LET m1 == Discard(m, popped)
             IN  [m1 EXCEPT !.events = Append(@,
                     [ev EXCEPT !.kind = "self", !.rem_after = m1.rem,
                                !.level_after = QueueAt(OppositeSide(m1), p),
                                !.after = Effects(m1)])]
        ELSE IF Stale(resting)
        THEN LET m1 == Discard(m, popped)
             IN  [m1 EXCEPT !.events = Append(@,
                     [ev EXCEPT !.kind = "stale", !.rem_after = m1.rem,
                                !.level_after = QueueAt(OppositeSide(m1), p),
                                !.after = Effects(m1)])]
        ELSE
        LET trade_price == TradePrice(m.rem, resting)
            quantity == TradeQuantity(m.rem, resting)
            buy == IF m.rem.type = "BUY" THEN m.rem ELSE resting
            sell == IF m.rem.type = "BUY" THEN resting ELSE m.rem
            trs == UpdateLedger(UpdateLedger(m.traders, buy.trader_id, "BUY",
                                             trade_price, quantity),
                                sell.trader_id, "SELL", trade_price, quantity)
            rest2 == [resting EXCEPT !.position_size = @ - quantity]
            rem2 == [m.rem EXCEPT !.position_size = @ - quantity]
            side2 == IF ShouldRequeue(rest2) THEN Requeue(popped, rest2) ELSE popped
            m2 == [SetOpposite(m, side2) EXCEPT
                     !.traders = trs,
                     !.trade_history = Append(@, MakeTrade(trade_price, quantity, buy, sell)),
                     !.market_price = MarketPriceAfter(@, trade_price),
                     !.total_trade_volume = @ + quantity,
                     !.total_price_volume = @ + trade_price * quantity,
                     !.filled = AddFilled(AddFilled(@, m.rem.oid, quantity),
                                          resting.oid, quantity),
                     !.rem = rem2]
        IN  [m2 EXCEPT !.events = Append(@,
                [ev EXCEPT !.kind = "trade",
                           !.trade = Len(m2.trade_history),
                           !.buyer_found = trader_map_find(m.traders, buy.trader_id) # {},
                           !.seller_found = trader_map_find(m.traders, sell.trader_id) # {},
                           !.rem_after = rem2,
                           !.level_after = QueueAt(side2, p),
                           !.after = Effects(m2)])]

RECURSIVE MatchLoop(_)
MatchLoop(m) == IF LoopCond(m) THEN MatchLoop(MatchStep(m)) ELSE m

\* after the loop: rest what is left on the order's own side
RestRemainder(m) ==
    IF ShouldRest(m.rem)
    THEN IF m.rem.type = "BUY" THEN [m EXCEPT !.buys = Push(@, m.rem)]
                               ELSE [m EXCEPT !.sells = Push(@, m.rem)]
    ELSE m

\* the fields of the Market as a record, with the incoming order
Machine(order) ==
    [buys |-> buys, sells |-> sells, traders |-> traders,
     trade_history |-> trade_history, market_price |-> market_price,
     total_trade_volume |-> total_trade_volume,
     total_price_volume |-> total_price_volume,
     rem |-> order, events |-> <<>>,
     filled |-> IF order.oid > Len(filled) THEN Append(filled, 0) ELSE filled]

\* void Market::process_aggressive_order(const Order& order)
process_aggressive_order(order) ==
    IF order.type \in {"BUY", "SELL"}
    THEN RestRemainder(MatchLoop(Machine(order)))
    ELSE Machine(order)

(***************************************************************************)
(* Market::process_orders: matches the two resting sides against each      *)
(* other.  tick() never calls it.                                          *)
(***************************************************************************)
\* the while condition
CrossedBook(m) ==
    /\ DOMAIN m.buys # {}
    /\ DOMAIN m.sells # {}
    /\ BestBidLevel(m.buys) >= BestAskLevel(m.sells)

\* one iteration of the while loop
CrossStep(m) ==
    LET bp == BestBidLevel(m.buys)
        sp == BestAskLevel(m.sells)
        buy == Head(m.buys[bp])
        sell == Head(m.sells[sp])
        buys1 == EraseIfEmpty(QueuePop(m.buys, bp), bp)
        sells1 == EraseIfEmpty(QueuePop(m.sells, sp), sp)
    IN  IF SelfTrade(buy, sell) \/ Stale(buy) \/ Stale(sell)
        THEN [m EXCEPT !.buys = buys1, !.sells = sells1]
        ELSE
        LET order_price == IF buy.timestep < sell.timestep THEN buy.price ELSE sell.price
            quantity == Min(buy.position_size, sell.position_size)
            buy2 == [buy EXCEPT !.position_size = @ - quantity]
            sell2 == [sell EXCEPT !.position_size = @ - quantity]
        IN  [m EXCEPT
               !.traders = UpdateLedger(UpdateLedger(@, buy.trader_id, "BUY",
                                                     order_price, quantity),
                                        sell.trader_id, "SELL", order_price, quantity),
               !.trade_history = Append(@, MakeTrade(order_price, quantity, buy, sell)),
               !.filled = AddFilled(AddFilled(@, buy.oid, quantity), sell.oid, quantity),
               !.total_trade_volume = @ + quantity,
               !.buys = IF ShouldRequeue(buy2) THEN Requeue(buys1, buy2) ELSE buys1,
               !.sells = IF ShouldRequeue(sell2) THEN Requeue(sells1, sell2) ELSE sells1]

RECURSIVE CrossLoop(_)
CrossLoop(m) == IF CrossedBook(m) THEN CrossLoop(CrossStep(m)) ELSE m

\* MarketTick Market::process_orders(): the Market after the call; total_volume is
\* the local of that name; the mid price is rounded down to the price grid
process_orders ==
    LET m0 == Machine(MakeOrder("HOLD", market_price, 0, timestep, "", 0))
        m == CrossLoop([m0 EXCEPT !.total_trade_volume = 0])
    IN  IF m.total_trade_volume > 0
        THEN [m EXCEPT !.market_price =
                 (get_best_bid(m.buys) + get_best_ask(m.sells)) \div 2]
        ELSE m

(***************************************************************************)
(* Agents.                                                                 *)
(***************************************************************************)
\* the Trader constructors: id, strategy parameters and sizer, default ledger
NewTrader(id, type, params) ==
    [trader_id |-> id, trader_type |-> type, params |-> params,
     cash |-> default_cash, position |-> default_position]

\* init_traders before the shuffle: Monkeys, then MeanReverters, then MomentumTraders,
\* with global_id counting from 0; params names the windows/noise weight and the sizer
InitialTraders ==
    [i \in 1..NumTraders |->
        NewTrader(i - 1,
                  IF i <= num_monkeys THEN "Monkey"
                  ELSE IF i <= num_monkeys + num_mreverters THEN "MeanReverter"
                  ELSE "MomentumTrader",
                  i - 1)]

PermutationsOf(n) == {f \in [1..n -> 1..n] : \A i, j \in 1..n : i # j => f[i] # f[j]}

\* std::shuffle(result.traders): the roster order the model starts from
Shuffles ==
    {f \in PermutationsOf(NumTraders) :
        \A i \in 1..NumTraders : f[i] = NumTraders + 1 - i}

\* init_market_makers: ids from mm_first_id, in insertion order
market_makers == [i \in 1..num_mmakers |-> mm_first_id + i - 1]

\* MarketMaker::quote
quote_BidOnly(id, current_market_price) ==
    << MakeOrder("BUY", current_market_price - spread \div 2, id, 0, "MarketMaker", mm_size) >>
quote(id, current_market_price) ==
    LET fair_value == current_market_price
        bid == fair_value - spread \div 2
        ask == fair_value + spread \div 2
    IN  << MakeOrder("BUY", bid, id, 0, "MarketMaker", mm_size),
           MakeOrder("SELL", ask, id, 0, "MarketMaker", mm_size) >>

\* the number of BUY/SELL orders of a quantity > 0 the traders have submitted
TraderOrderCount ==
    Cardinality({i \in 1..Len(submitted) : submitted[i].trader_type # "MarketMaker"})

\* Trader::make_order: the decisions a trader can return.  The strategies are
\* inputs: any side, limit price and size, but HOLD instead of a BUY the cash does
\* not cover or a SELL the position does not cover.
make_order(t) ==
    {MakeOrder("HOLD", market_price, t.trader_id, timestep, t.trader_type, 0)} \cup
    {MakeOrder(type, price, t.trader_id, timestep, t.trader_type, size) :
        type \in {"BUY", "SELL"}, price \in 1..MaxPrice, size \in (0 - 1)..MaxQty}

Affordable(t, order) ==
    /\ order.type = "BUY" => t.cash >= order.price * order.position_size
    /\ order.type = "SELL" => t.position >= order.position_size

(***************************************************************************)
(* Market::clear_market_maker_orders.                                      *)
(***************************************************************************)
IsMarketMakerOrder_Any(order) == TRUE
IsMarketMakerOrder(order) == order.trader_type = "MarketMaker"

\* the queue `filtered` of one level
Filtered(queue) == SelectSeq(queue, LAMBDA order : ~IsMarketMakerOrder(order))

\* remove_mm_orders: keep the filtered queue of a level, erase the level when it is empty
remove_mm_orders_Keep(side) == side
remove_mm_orders(side) ==
    [p \in {x \in DOMAIN side : Filtered(side[x]) # <<>>} |-> Filtered(side[p])]

(***************************************************************************)
(* Market::evolve_traders.                                                 *)
(***************************************************************************)
\* std::sort by value, descending: a ranking of the roster slots; std::sort is not
\* stable, so equal values come in any order
Rankings(trs, price) ==
    {f \in PermutationsOf(Len(trs)) :
        \A i \in 1..(Len(trs) - 1) :
            get_value(trs[f[i]], price) >= get_value(trs[f[i + 1]], price)}

\* int kill_count = std::round(sorted.size() * kill_percentage)
kill_count_All(n) == n
kill_count(n) == (n * kill_percentage + 50) \div 100

\* survivor_ids: per trader type, the id of the first trader of that type in the ranking
survivor_ids_None(trs, sorted) == [ty \in {} |-> 0]
survivor_ids(trs, sorted) ==
    [ty \in {trs[i].trader_type : i \in 1..Len(trs)} \cap TraderTypes |->
        trs[sorted[SetMin({i \in 1..Len(trs) : trs[sorted[i]].trader_type = ty})]].trader_id]

\* if (survivor_ids.count(type) && survivor_ids[type] == id) continue
IsSurvivor(surv, t) == t.trader_type \in DOMAIN surv /\ surv[t.trader_type] = t.trader_id

\* for (i = size - 1; i >= 0 && killed < kill_count; --i): the ids collected
RECURSIVE KillWalk(_, _, _, _, _)
KillWalk(trs, sorted, surv, i, to_kill) ==
    IF i >= 1 /\ Len(to_kill) < kill_count(Len(trs))
    THEN IF IsSurvivor(surv, trs[sorted[i]])
         THEN KillWalk(trs, sorted, surv, i - 1, to_kill)
         ELSE KillWalk(trs, sorted, surv, i - 1, Append(to_kill, trs[sorted[i]].trader_id))
    ELSE to_kill

\* new_trader: the champion's type, parameters and sizer, the killed trader's id
Clone_TopLedger(top, id) == [top EXCEPT !.trader_id = id]
Clone_TopId(top, id) == NewTrader(top.trader_id, top.trader_type, top.params)
Clone(top, id) == NewTrader(id, top.trader_type, top.params)

\* for (auto& trader : traders) if (trader->get_id() == id) { trader = new_trader; break; }
ReplaceSlot(trs, id, new_trader) ==
    LET slots == trader_map_find(trs, id)
    IN  IF slots = {} THEN trs ELSE [trs EXCEPT ![SetMin(slots)] = new_trader]

RECURSIVE ReplaceAll(_, _, _)
ReplaceAll(trs, top, to_kill) ==
    IF to_kill = <<>> THEN trs
    ELSE ReplaceAll(ReplaceSlot(trs, Head(to_kill), Clone(top, Head(to_kill))),
                    top, Tail(to_kill))

\* one evolution event over the ranking `sorted`: the roster after it
Evolved(trs, sorted) ==
    LET surv == survivor_ids(trs, sorted)
        to_kill == KillWalk(trs, sorted, surv, Len(trs), <<>>)
    IN  [traders |-> ReplaceAll(trs, trs[sorted[1]], to_kill),
         to_kill |-> to_kill, top |-> trs[sorted[1]], before |-> trs,
         price |-> 0, time |-> 0]

NoEvolution == [traders |-> <<>>, to_kill |-> <<>>, top |-> <<>>, before |-> <<>>,
                price |-> 0, time |-> 0]

\* no call of process_aggressive_order yet in this tick
NoCall == [oid |-> 0, hold |-> FALSE, crossing |-> FALSE, zero_crossing |-> FALSE,
           trades_before |-> 0, opposite_before |-> 0]

\* the call process_aggressive_order(o): the order's history index, whether it is a
\* HOLD, whether it is a BUY/SELL of a quantity > 0 (of quantity 0) at a price that
\* crosses the other side, the length of the trade history at the call and, for an
\* order of a quantity > 0, the number of orders resting on the other side
Call(o) ==
    [oid |-> o.oid,
     hold |-> o.type = "HOLD",
     crossing |-> /\ o.type \in {"BUY", "SELL"}
                  /\ o.position_size > 0
                  /\ Crosses(Machine(o)),
     zero_crossing |-> /\ o.type \in {"BUY", "SELL"}
                       /\ o.position_size = 0
                       /\ Crosses(Machine(o)),
     trades_before |-> Len(trade_history),
     opposite_before |-> IF o.oid > 0
                         THEN Cardinality(RestingOrders(OppositeSide(Machine(o))))
                         ELSE 0]

(***************************************************************************)
(* Market::tick, one step per call it makes.                               *)
(***************************************************************************)
\* Market::Market, but for `evolve`
Construct ==
    /\ timestep = 0
    /\ market_price = initial_price
    /\ buys = EmptyBook
    /\ sells = EmptyBook
    /\ \E f \in Shuffles : traders = [i \in 1..NumTraders |-> InitialTraders[f[i]]]
    /\ trade_history = <<>>
    /\ tick_history = <<>>
    /\ total_trade_volume = 0
    /\ total_price_volume = 0
    /\ pc = "start"
    /\ idx = 1
    /\ quotes = <<>>
    /\ events = <<>>
    /\ submitted = <<>>
    /\ filled = <<>>
    /\ evolution = NoEvolution
    /\ acted = <<>>
    /\ last = NoCall

\* the Market of a configuration with evolution enabled
Init == Construct /\ evolve = TRUE

\* the Market of a configuration with evolution disabled
InitEngine == Construct /\ evolve = FALSE

\* the bound on the traders' orders
OrderBudget == IF evolve THEN MaxOrders ELSE MaxOrders + 1

\* the call process_aggressive_order(order) and its effect on the Market
Submit(order) ==
    LET o == IF order.type \in {"BUY", "SELL"} /\ order.position_size > 0
             THEN [order EXCEPT !.oid = Len(submitted) + 1, !.born = timestep]
             ELSE [order EXCEPT !.born = timestep]
        m == process_aggressive_order(o)
    IN  /\ buys' = m.buys
        /\ sells' = m.sells
        /\ traders' = m.traders
        /\ trade_history' = m.trade_history
        /\ market_price' = m.market_price
        /\ total_trade_volume' = m.total_trade_volume
        /\ total_price_volume' = m.total_price_volume
        /\ events' = m.events
        /\ filled' = m.filled
        /\ submitted' = IF o.oid > 0 THEN Append(submitted, o) ELSE submitted
        /\ acted' = Append(acted, o.trader_id)
        /\ last' = Call(o)

\* tick(), lines 37-40: clear the market makers' orders, reset the accumulators
TickBegin ==
    /\ pc = "start"
    /\ timestep < MaxTick
    /\ buys' = remove_mm_orders(buys)
    /\ sells' = remove_mm_orders(sells)
    /\ total_trade_volume' = 0
    /\ total_price_volume' = 0
    /\ pc' = IF num_mmakers > 0 THEN "makers" ELSE "traders"
    /\ idx' = 1
    /\ events' = <<>>
    /\ acted' = <<>>
    /\ last' = NoCall
    /\ UNCHANGED <<timestep, evolve, market_price, traders, trade_history,
                   tick_history, quotes, submitted, filled, evolution>>

\* tick(), line 43: auto quotes = mm->quote(market_price)
MakerQuote ==
    /\ pc = "makers"
    /\ quotes = <<>>
    /\ quotes' = quote(market_makers[idx], market_price)
    /\ UNCHANGED <<timestep, evolve, market_price, buys, sells, traders, trade_history,
                   tick_history, total_trade_volume, total_price_volume, pc, idx,
                   events, submitted, filled, evolution, acted, last>>

\* tick(), lines 44-46: process_aggressive_order(order) for the next quote
MakerSubmit ==
    /\ pc = "makers"
    /\ quotes # <<>>
    /\ Submit(Head(quotes))
    /\ quotes' = Tail(quotes)
    /\ IF Len(quotes) > 1 THEN UNCHANGED <<pc, idx>>
       ELSE IF idx < num_mmakers THEN idx' = idx + 1 /\ pc' = pc
       ELSE idx' = 1 /\ pc' = "traders"
    /\ UNCHANGED <<timestep, evolve, tick_history, evolution>>

\* tick(), lines 49-52: one trader's make_order and process_aggressive_order
TraderOrder ==
    /\ pc = "traders"
    /\ \E order \in make_order(traders[idx]) :
        /\ (order.type # "HOLD" /\ order.position_size > 0) => TraderOrderCount < OrderBudget
        /\ Affordable(traders[idx], order)
        /\ Submit(order)
    /\ IF idx < Len(traders) THEN idx' = idx + 1 /\ pc' = pc
       ELSE idx' = 1 /\ pc' = "finish"
    /\ UNCHANGED <<timestep, evolve, tick_history, quotes, evolution>>

\* a quotient of two doubles
Ratio(num, den) == <<num, den>>

\* tick(), lines 60-65: the MarketTick of this tick
MakeTick_Before(ts) ==
    [last_price |-> market_price, volume |-> total_trade_volume,
     vwap |-> Ratio(market_price, 1),
     mid_price |-> Ratio(get_best_bid(buys) + get_best_ask(sells), 2),
     timestep |-> ts - 1]
MakeTick(ts) ==
    [last_price |-> market_price,
     volume |-> total_trade_volume,
     vwap |-> IF total_trade_volume > 0
              THEN Ratio(total_price_volume, total_trade_volume)
              ELSE Ratio(market_price, 1),
     mid_price |-> Ratio(get_best_bid(buys) + get_best_ask(sells), 2),
     timestep |-> ts]

\* if (evolve) evolve_traders(), which returns at once unless
\* timestep % evolution_ticks == 0; ts is the timestep after its increment
EvolutionDue_Always(ts) == evolve
EvolutionDue(ts) == evolve /\ ts % evolution_ticks = 0

\* tick(), lines 54-65: ++timestep, evolve_traders, tick_history.push_back
TickFinish ==
    /\ pc = "finish"
    /\ timestep' = timestep + 1
    /\ IF EvolutionDue(timestep + 1)
       THEN \E sorted \in Rankings(traders, market_price) :
                LET e == Evolved(traders, sorted)
                IN  /\ traders' = e.traders
                    /\ evolution' = [e EXCEPT !.time = timestep + 1,
                                                 !.price = market_price]
       ELSE UNCHANGED <<traders, evolution>>
    /\ tick_history' = Append(tick_history, MakeTick(timestep + 1))
    /\ pc' = "start"
    /\ UNCHANGED <<evolve, market_price, buys, sells, trade_history, total_trade_volume,
                   total_price_volume, idx, quotes, events, submitted, filled,
                   acted, last>>

\* a call of process_orders() between two ticks
ProcessOrders ==
    /\ pc = "start"
    /\ LET m == process_orders
       IN  /\ buys' = m.buys
           /\ sells' = m.sells
           /\ traders' = m.traders
           /\ trade_history' = m.trade_history
           /\ market_price' = m.market_price
           /\ filled' = m.filled
    /\ UNCHANGED <<timestep, evolve, tick_history, total_trade_volume,
                   total_price_volume, pc, idx, quotes, events, submitted, evolution,
                   acted, last>>

Next ==
    \/ TickBegin
    \/ MakerQuote
    \/ MakerSubmit
    \/ TraderOrder
    \/ TickFinish
    \/ ProcessOrders

\* a run of main() with evolution enabled
Spec == Init /\ [][Next]_vars

\* a run of main() with evolution disabled
SpecEngine == InitEngine /\ [][Next]_vars

(***************************************************************************)
(* Market::evolve_traders on its own: one call, on a Market whose timestep *)
(* is a multiple of evolution_ticks, over any roster of three or four      *)
(* traders of any types whose cash is the default plus at most MaxGain.    *)
(***************************************************************************)
Rosters ==
    UNION {{[i \in 1..n |-> [NewTrader(i - 1, types[i], i - 1) EXCEPT !.cash = cash[i]]] :
               types \in [1..n -> TraderTypes],
               cash \in [1..n -> default_cash..(default_cash + MaxGain)]} :
           n \in (NumTraders - 1)..NumTraders}

InitEvolve ==
    /\ timestep = evolution_ticks
    /\ evolve = TRUE
    /\ market_price = initial_price
    /\ buys = EmptyBook
    /\ sells = EmptyBook
    /\ traders \in Rosters
    /\ trade_history = <<>>
    /\ tick_history = <<>>
    /\ total_trade_volume = 0
    /\ total_price_volume = 0
    /\ pc = "evolve"
    /\ idx = 1
    /\ quotes = <<>>
    /\ events = <<>>
    /\ submitted = <<>>
    /\ filled = <<>>
    /\ evolution = NoEvolution
    /\ acted = <<>>
    /\ last = NoCall

\* void Market::evolve_traders()
EvolveTraders ==
    /\ pc = "evolve"
    /\ timestep % evolution_ticks = 0
    /\ \E sorted \in Rankings(traders, market_price) :
           LET e == Evolved(traders, sorted)
           IN  /\ traders' = e.traders
               /\ evolution' = [e EXCEPT !.time = timestep, !.price = market_price]
    /\ pc' = "done"
    /\ UNCHANGED <<timestep, evolve, market_price, buys, sells, trade_history,
                   tick_history, total_trade_volume, total_price_volume, idx, quotes,
                   events, submitted, filled, acted, last>>

NextEvolve == EvolveTraders

SpecEvolve == InitEvolve /\ [][NextEvolve]_vars

(***************************************************************************)
(* The traders' loop of tick() on its own: after the market maker's quotes *)
(* of the first tick, up to MaxOrders + 1 calls of make_order and          *)
(* process_aggressive_order, by any traders, for quantities up to          *)
(* MaxQty + 1, within one time step.  One trader's position has come down  *)
(* to 1.                                                                   *)
(***************************************************************************)
\* the roster, with the position of the trader in slot `low` down to 1
RosterWithLow(trs, low) ==
    [i \in 1..Len(trs) |-> IF i = low THEN [trs[i] EXCEPT !.position = 1] ELSE trs[i]]

\* the quotes of the first market maker at the initial price, as the matching engine
\* has taken them in
FirstQuotes ==
    [k \in 1..2 |-> [quote(market_makers[1], initial_price)[k] EXCEPT !.oid = k]]

InitCalls ==
    /\ timestep = 0
    /\ evolve = FALSE
    /\ market_price = initial_price
    /\ buys = Push(EmptyBook, FirstQuotes[1])
    /\ sells = Push(EmptyBook, FirstQuotes[2])
    /\ \E f \in Shuffles : \E low \in 1..NumTraders :
          traders = RosterWithLow([i \in 1..NumTraders |-> InitialTraders[f[i]]], low)
    /\ trade_history = <<>>
    /\ tick_history = <<>>
    /\ total_trade_volume = 0
    /\ total_price_volume = 0
    /\ pc = "calls"
    /\ idx = 1
    /\ quotes = <<>>
    /\ events = <<>>
    /\ submitted = FirstQuotes
    /\ filled = <<0, 0>>
    /\ evolution = NoEvolution
    /\ acted = <<market_makers[1], market_makers[1]>>
    /\ last = [NoCall EXCEPT !.oid = 2, !.opposite_before = 1]

\* Trader::make_order: the BUY and SELL decisions, for quantities up to MaxQty + 1; a
\* MonkeyTrader's position_size is 1
make_order_sized(t) ==
    {MakeOrder(type, price, t.trader_id, timestep, t.trader_type, size) :
        type \in {"BUY", "SELL"}, price \in 1..MaxPrice,
        size \in IF t.trader_type = "Monkey" THEN {1} ELSE 1..(MaxQty + 1)}

\* tick(), lines 49-52, for one trader: make_order and process_aggressive_order
TraderCall ==
    /\ pc = "calls"
    /\ Len(acted) < 2 + MaxOrders + 1
    /\ \E i \in 1..Len(traders) : \E order \in make_order_sized(traders[i]) :
          /\ Affordable(traders[i], order)
          /\ Submit(order)
    /\ UNCHANGED <<timestep, evolve, tick_history, pc, idx, quotes, evolution>>

NextCalls == TraderCall

SpecCalls == InitCalls /\ [][NextCalls]_vars

(***************************************************************************)
(* Properties.                                                             *)
(***************************************************************************)
\* the loop iterations of the last matching call that traded, were self-trade
\* discards, were stale discards
TradeEvents == {i \in 1..Len(events) : events[i].kind = "trade"}
SelfEvents == {i \in 1..Len(events) : events[i].kind = "self"}
StaleEvents == {i \in 1..Len(events) : events[i].kind = "stale"}
Resting == RestingOrders(buys) \cup RestingOrders(sells)
TypesOf(trs) == {trs[i].trader_type : i \in 1..Len(trs)}
IdsOf(trs) == [i \in 1..Len(trs) |-> trs[i].trader_id]

\* C1: in every trade of the trade history the buyer and the seller are different
\* agents.
C1_NoSelfTrade ==
    \A i \in 1..Len(trade_history) :
        trade_history[i].buyer_id # trade_history[i].seller_id

\* C1 witness: an incoming order met its owner's resting order, discarded it and then
\* traded with another agent's order.
C1_Witness ==
    \E i \in SelfEvents : \E j \in TradeEvents :
        i < j /\ trade_history[events[j].trade].buyer_id
                    # trade_history[events[j].trade].seller_id

\* C2: every trade of process_aggressive_order executes at the resting order's limit
\* price; a BUY taker pays at most its limit, a SELL taker receives at least its limit.
C2_MakerPricing ==
    \A i \in TradeEvents :
        LET e == events[i]
            t == trade_history[e.trade]
        IN  /\ t.price = e.maker.price
            /\ e.taker.type = "BUY" => t.price <= e.taker.price
            /\ e.taker.type = "SELL" => t.price >= e.taker.price

\* C2 witness: a trade whose resting order and incoming order had different limit prices.
C2_Witness ==
    \E i \in TradeEvents :
        /\ events[i].maker.price # events[i].taker.price
        /\ trade_history[events[i].trade].price = events[i].maker.price

\* C3, as claimed: whenever an incoming order trades against a level, the resting
\* order it is matched with is the earliest submitted of the orders at that level.
C3_EarliestInsertedFirst ==
    \A i \in TradeEvents :
        \A k \in 1..Len(events[i].level) :
            events[i].maker.oid <= events[i].level[k].oid

\* C4: a resting order older than max_order_age that reaches the front of the
\* matching loop is not traded with: it is removed from the book, and no trade is
\* appended, no ledger and no market price changes in that iteration.
C4_Expiry ==
    \A i \in 1..Len(events) :
        events[i].now > events[i].maker.timestep + max_order_age
            => /\ events[i].kind # "trade"
               /\ events[i].after = events[i].before
               /\ \A o \in Resting : o.oid # events[i].maker.oid

\* C4 witness: a resting order older than max_order_age, of another agent, reached
\* the front of the loop and was discarded.
C4_Witness ==
    \E i \in StaleEvents :
        /\ events[i].now > events[i].maker.timestep + max_order_age
        /\ events[i].maker.trader_id # events[i].taker.trader_id

\* C5: a trade's quantity is at most the remaining quantity of either order, and
\* the quantities an order has traded never add up to more than it asked for.
C5_QuantityConservation ==
    /\ \A i \in TradeEvents :
          /\ trade_history[events[i].trade].quantity <= events[i].taker.position_size
          /\ trade_history[events[i].trade].quantity <= events[i].maker.position_size
    /\ \A o \in 1..Len(submitted) :
          filled[o] >= 0 /\ filled[o] <= submitted[o].position_size

\* C5 witness: an order has been filled in several trades without exceeding what it
\* asked for.
C5_Witness ==
    \E o \in 1..Len(submitted) :
        /\ Cardinality({i \in 1..Len(trade_history) :
                            trade_history[i].quantity > 0}) >= 2
        /\ filled[o] >= 2
        /\ filled[o] < submitted[o].position_size

\* C6: no price level of either side has an empty queue.
C6_LevelCleanliness ==
    /\ \A p \in DOMAIN buys : buys[p] # <<>>
    /\ \A p \in DOMAIN sells : sells[p] # <<>>

\* C6 witness: the last order of a level was taken out of it by the matching loop and
\* the level is gone.
C6_Witness ==
    \E i \in 1..Len(events) :
        /\ Len(events[i].level) = 1
        /\ events[i].maker.price \notin
              (IF events[i].maker.type = "BUY" THEN DOMAIN buys ELSE DOMAIN sells)

\* C7: every order resting in the book has a remaining quantity greater than 0.
C7_PositiveResting == \A o \in Resting : o.position_size > 0

\* C7 witness: a resting order was filled completely and is gone, while a partly
\* filled one rests with its remainder.
C7_Witness ==
    /\ \E i \in TradeEvents :
          /\ events[i].maker.position_size = trade_history[events[i].trade].quantity
          /\ \A o \in Resting : o.oid # events[i].maker.oid
    /\ \E o \in Resting : o.position_size < submitted[o.oid].position_size

\* C8: an evolution event over a population with all three trader types leaves all
\* three types in the roster, so all three types are present at all times.
C8_DiversityFloor ==
    /\ (evolution.time > 0 /\ TraderTypes \subseteq TypesOf(evolution.before))
          => TraderTypes \subseteq TypesOf(evolution.traders)
    /\ TraderTypes \subseteq TypesOf(traders)

\* C8 witness: an evolution event replaced a trader while a protected trader of lower
\* value survived.
C8_Witness ==
    /\ evolution.time > 0
    /\ evolution.to_kill # <<>>
    /\ \E i, j \in 1..Len(evolution.before) :
          /\ evolution.before[i].trader_id \in
                {evolution.to_kill[k] : k \in 1..Len(evolution.to_kill)}
          /\ evolution.before[j].trader_id \notin
                {evolution.to_kill[k] : k \in 1..Len(evolution.to_kill)}
          /\ get_value(evolution.before[j], evolution.price)
                < get_value(evolution.before[i], evolution.price)

\* C9: no step changes the number of traders, the set of trader ids or the slot of
\* an id.
C9_RosterStability == [][IdsOf(traders') = IdsOf(traders)]_vars

\* C9 witness: an evolution event has replaced a trader and the roster holds the ids
\* it was constructed with.
C9_Witness ==
    /\ evolution.time > 0
    /\ evolution.to_kill # <<>>
    /\ IdsOf(traders) = IdsOf(evolution.before)
    /\ traders # evolution.before

\* C10, as claimed: for every trade the ledger lookup finds the buyer and the seller.
C10_LedgerLookupNeverMisses ==
    \A i \in TradeEvents : events[i].buyer_found /\ events[i].seller_found

\* the owners of the orders of one tick, in the order tick() passes them on: every
\* market maker twice, in insertion order, then every trader once, in roster order
MakerTurns == [k \in 1..(2 * num_mmakers) |-> market_makers[(k + 1) \div 2]]
TickOrder == MakerTurns \o IdsOf(traders)
IsPrefix(s, t) == Len(s) <= Len(t) /\ \A i \in 1..Len(s) : s[i] = t[i]

\* C11: at every point of a tick, the orders passed to the matching engine so far are
\* the two quotes of each market maker, in insertion order, followed by one order of
\* each trader, in roster order; when the traders' loop ends, every agent has acted
\* exactly as often as that.
C11_TickOrdering ==
    /\ IsPrefix(acted, TickOrder)
    /\ pc = "makers" =>
          Len(acted) = 2 * (idx - 1) + (IF quotes = <<>> THEN 0 ELSE 2 - Len(quotes))
    /\ pc = "traders" => Len(acted) = 2 * num_mmakers + idx - 1
    /\ pc = "finish" => acted = TickOrder

\* C11 witness: in a later tick all market makers and all traders have acted, and the
\* last trader's order met a resting order.
C11_Witness ==
    /\ pc = "finish"
    /\ timestep >= 1
    /\ acted = TickOrder
    /\ events # <<>>

PlacesOf(side, id) ==
    {x \in UNION {{<<p, i>> : i \in 1..Len(side[p])} : p \in DOMAIN side} :
        side[x[1]][x[2]].trader_id = id}
Footprint(id) == Cardinality(PlacesOf(buys, id)) + Cardinality(PlacesOf(sells, id))

\* C13: at every point of every tick each market maker has at most 2 orders resting
\* in the book, both sides together.
C13_MakerFootprint == \A k \in 1..num_mmakers : Footprint(market_makers[k]) <= 2

\* C13 witness: in a later tick a market maker has both of its new quotes resting, one
\* of them partly filled, after its quotes of the tick before were cleared.
C13_Witness ==
    /\ timestep >= 1
    /\ pc = "finish"
    /\ \E k \in 1..num_mmakers :
          /\ Footprint(market_makers[k]) = 2
          /\ \E o \in Resting :
                /\ o.trader_id = market_makers[k]
                /\ o.born = timestep
                /\ o.position_size < mm_size

\* the positions of order o in the queue of its own side at its own limit price, and
\* the quantity resting there for it
OwnSide(o) == IF o.type = "BUY" THEN buys ELSE sells
OwnPlaces(o) ==
    IF o.price \in DOMAIN OwnSide(o)
    THEN {i \in 1..Len(OwnSide(o)[o.price]) : OwnSide(o)[o.price][i].oid = o.oid}
    ELSE {}
RestingFor(o) ==
    IF OwnPlaces(o) = {} THEN 0
    ELSE OwnSide(o)[o.price][CHOOSE i \in OwnPlaces(o) : TRUE].position_size

\* the quantities traded in the loop iterations es
RECURSIVE SumFills(_)
SumFills(es) ==
    IF es = <<>> THEN 0
    ELSE (IF Head(es).kind = "trade" THEN trade_history[Head(es).trade].quantity ELSE 0)
         + SumFills(Tail(es))

\* C14: after process_aggressive_order has handled a BUY or SELL order of a quantity
\* Q > 0, the quantity resting for it, on its own side at its own limit price, is Q less
\* the quantities it traded in the call, in one place at most and nowhere else; when
\* the other side is empty or its best price does not cross, the whole order rests and
\* no trade is appended.
C14_RestRemainder ==
    last.oid > 0 =>
        LET o == submitted[last.oid]
        IN  /\ filled[o.oid] = SumFills(events)
            /\ RestingFor(o) = o.position_size - filled[o.oid]
            /\ Cardinality(OwnPlaces(o)) <= 1
            /\ \A r \in Resting : r.oid = o.oid => r.type = o.type /\ r.price = o.price
            /\ Len(trade_history) - last.trades_before = Cardinality(TradeEvents)
            /\ ~last.crossing =>
                  /\ events = <<>>
                  /\ RestingFor(o) = o.position_size
                  /\ Len(trade_history) = last.trades_before

\* C14 witness: an order has traded a part of its quantity with a resting order of
\* another agent and rests with what is left.
C14_Witness ==
    /\ last.oid > 0
    /\ last.crossing
    /\ filled[last.oid] > 0
    /\ filled[last.oid] < submitted[last.oid].position_size
    /\ RestingFor(submitted[last.oid]) = submitted[last.oid].position_size - filled[last.oid]

\* C15: whenever the order at the front of the best opposite level belongs to the
\* agent of the incoming order, the iteration is a self-trade discard: the resting
\* order is gone from the book, no trade is appended, no ledger and no market price
\* changes, and the incoming order keeps its remaining quantity; what it has left when
\* the loop ends rests on its own side.
C15_SelfTradeResolution ==
    \A i \in 1..Len(events) :
        events[i].maker.trader_id = events[i].taker.trader_id
            => /\ events[i].kind = "self"
               /\ events[i].trade = 0
               /\ events[i].after = events[i].before
               /\ events[i].rem_after = events[i].taker
               /\ \A r \in Resting : r.oid # events[i].maker.oid
               /\ (i < Len(events) => events[i + 1].taker = events[i].taker)
               /\ (i = Len(events) /\ last.oid = events[i].taker.oid) =>
                     RestingFor(submitted[last.oid]) = events[i].taker.position_size

\* C15 witness: an agent's incoming order met the agent's own resting order, which
\* was discarded, found no other counterparty and rests with its whole quantity.
C15_Witness ==
    /\ Len(events) = 1
    /\ events[1].kind = "self"
    /\ last.oid = events[1].taker.oid
    /\ trade_history = <<>>
    /\ RestingFor(submitted[last.oid]) = submitted[last.oid].position_size
    /\ \A r \in Resting : r.oid # events[1].maker.oid

\* C16: a call of process_aggressive_order with a HOLD order, or with a BUY/SELL order
\* that asks for no quantity, changes neither side of the book, no ledger, not the
\* trade history and not the market price, whatever the order's price.
C16_HoldAndZeroAreNoOps ==
    [][(Len(acted') = Len(acted) + 1 /\ last'.oid = 0)
          => /\ buys' = buys
             /\ sells' = sells
             /\ traders' = traders
             /\ trade_history' = trade_history
             /\ market_price' = market_price]_vars

\* C16 witness: a BUY/SELL order of quantity 0 at a price that crosses the best price
\* of the other side has been handled, and every resting order still has the quantity
\* it was submitted with.
C16_Witness ==
    /\ last.zero_crossing
    /\ last.oid = 0
    /\ Resting # {}
    /\ trade_history = <<>>
    /\ \A r \in Resting : r.position_size = submitted[r.oid].position_size

\* C17, as claimed: the stale rule discards only orders that have rested for more than
\* max_order_age ticks since they were passed to the matching engine; an order passed
\* on during the current tick, a market maker's fresh quote in particular, is never
\* discarded as stale.
C17_FreshQuotesNotStale ==
    \A i \in StaleEvents :
        events[i].now - events[i].maker.born > max_order_age

\* a recorded value that cannot be mistaken for a price: not above 0, or at least half
\* of the largest double
IsAbsenceSentinel(r) == r[1] <= 0 \/ 2 * r[1] >= DBL_MAX * r[2]

\* C18, as claimed: the mid price of the Market Tick just recorded is the average of
\* the best bid and the best ask of the book the tick leaves when both sides hold
\* orders, and an absence sentinel when the bid side or the ask side is empty.
C18_MidPrice ==
    (pc = "start" /\ tick_history # <<>>) =>
        LET t == tick_history[Len(tick_history)]
        IN  /\ (DOMAIN buys # {} /\ DOMAIN sells # {}) =>
                  t.mid_price = Ratio(BestBidLevel(buys) + BestAskLevel(sells), 2)
            /\ (DOMAIN buys = {} \/ DOMAIN sells = {}) =>
                  IsAbsenceSentinel(t.mid_price)

\* the last evolution event: the slots replaced, the slots kept, a slot's value at the
\* event, the slots that can be the protected survivor of their type (a member of the
\* highest value of the type), and the rounded number of kills asked for
Replaced ==
    {i \in 1..Len(evolution.before) :
        \E k \in 1..Len(evolution.to_kill) :
            evolution.to_kill[k] = evolution.before[i].trader_id}
Kept == (1..Len(evolution.before)) \ Replaced
ValueAt(i) == get_value(evolution.before[i], evolution.price)
SameType(i, j) == evolution.before[i].trader_type = evolution.before[j].trader_type
TopOfType(i) ==
    \A j \in 1..Len(evolution.before) : SameType(i, j) => ValueAt(i) >= ValueAt(j)
RoundedKills(n) ==
    CHOOSE k \in 0..n : 100 * k <= n * kill_percentage + 50
                        /\ n * kill_percentage + 50 < 100 * (k + 1)

\* C19: an evolution event over N traders replaces min(round(N * kill fraction), number
\* of traders that are not protected) agents, one trader per type being protected;
\* every type keeps a member of its highest value; and a kept agent of a lower value
\* than a replaced one is the protected member of its type, the only kept member of
\* that type below the replaced one.
C19_KillSelection ==
    evolution.time > 0 =>
        LET N == Len(evolution.before)
            unprotected == N - Cardinality(TypesOf(evolution.before))
        IN  /\ Cardinality(Replaced) = Min(RoundedKills(N), unprotected)
            /\ Len(evolution.to_kill) = Cardinality(Replaced)
            /\ \A i \in 1..N : \E j \in Kept : SameType(i, j) /\ TopOfType(j)
            /\ \A j \in Replaced : \A i \in Kept :
                  ValueAt(j) > ValueAt(i)
                      => /\ TopOfType(i)
                         /\ \A i2 \in Kept :
                               (SameType(i, i2) /\ ValueAt(j) > ValueAt(i2)) => i2 = i

\* C19 witness: the number of kills asked for was reached before the walk ran out of
\* unprotected traders: an agent of a lower value was replaced while an unprotected
\* agent of a higher value, not the best of its type, was kept.
C19_Witness ==
    /\ evolution.time > 0
    /\ Cardinality(Replaced) = RoundedKills(Len(evolution.before))
    /\ Cardinality(Replaced) <
          Len(evolution.before) - Cardinality(TypesOf(evolution.before))
    /\ \E i \in Kept : \E j \in Replaced : ~TopOfType(i) /\ ValueAt(j) < ValueAt(i)

\* C20: after an evolution event every replaced slot holds an agent of the champion's
\* type with the champion's strategy parameters and bet sizer, the id of the agent it
\* replaces and the default cash and position; the champion is a trader of the highest
\* value; every other slot holds the agent it held before, unchanged.
C20_Cloning ==
    evolution.time > 0 =>
        /\ Len(evolution.traders) = Len(evolution.before)
        /\ \E c \in 1..Len(evolution.before) :
              /\ evolution.before[c] = evolution.top
              /\ \A j \in 1..Len(evolution.before) : ValueAt(c) >= ValueAt(j)
        /\ \A i \in Replaced :
              /\ evolution.traders[i].trader_type = evolution.top.trader_type
              /\ evolution.traders[i].params = evolution.top.params
              /\ evolution.traders[i].trader_id = evolution.before[i].trader_id
              /\ evolution.traders[i].cash = default_cash
              /\ evolution.traders[i].position = default_position
        /\ \A i \in Kept : evolution.traders[i] = evolution.before[i]

\* C20 witness: an agent whose type and cash differed from the champion's, and whose
\* cash was not the default, was replaced by a clone of a champion whose cash is not
\* the default either, while another agent was kept.
C20_Witness ==
    /\ evolution.time > 0
    /\ evolution.top.cash # default_cash
    /\ Kept # {}
    /\ \E i \in Replaced :
          /\ evolution.before[i].trader_type # evolution.top.trader_type
          /\ evolution.before[i].cash # default_cash
          /\ evolution.traders[i] = NewTrader(evolution.before[i].trader_id,
                                              evolution.top.trader_type,
                                              evolution.top.params)

\* C21: a step of tick() replaces traders only when evolution is enabled and the time
\* step counter, after its increment in that tick, is a multiple of the evolution
\* period; the end of every other tick leaves the roster, ledgers included, as it is,
\* and no other step of a tick runs an evolution event.
C21_EvolutionGating ==
    [][/\ evolution' # evolution =>
             /\ evolve
             /\ pc = "finish"
             /\ timestep' = timestep + 1
             /\ timestep' % evolution_ticks = 0
       /\ (pc = "finish" /\ ~(evolve /\ timestep' % evolution_ticks = 0)) =>
             /\ traders' = traders
             /\ evolution' = evolution
       /\ pc # "finish" => IdsOf(traders') = IdsOf(traders)
                           /\ \A i \in 1..Len(traders) :
                                 /\ traders'[i].trader_type = traders[i].trader_type
                                 /\ traders'[i].params = traders[i].params]_vars

\* C21 witness: the tick that took the counter to a multiple of the period replaced a
\* trader, and the tick after it, which took the counter past the multiple, has ended
\* with the roster of the same agents.
C21_Witness ==
    /\ pc = "start"
    /\ evolve
    /\ evolution.time > 0
    /\ evolution.time % evolution_ticks = 0
    /\ evolution.to_kill # <<>>
    /\ timestep = evolution.time + 1
    /\ timestep % evolution_ticks # 0
    /\ \A i \in 1..Len(traders) :
          /\ traders[i].trader_type = evolution.traders[i].trader_type
          /\ traders[i].params = evolution.traders[i].params

\* C22: when a trade fills a resting order only in part, the level's queue after the
\* iteration is the orders that were behind it, in their order, followed by the
\* resting order itself with its quantity reduced by exactly the traded quantity and
\* its price, owner and origin tick unchanged.
C22_PartialFillRequeue ==
    \A i \in TradeEvents :
        LET e == events[i]
            q == trade_history[e.trade].quantity
        IN  e.maker.position_size > q =>
                e.level_after =
                    Append(Tail(e.level), [e.maker EXCEPT !.position_size = @ - q])

\* C22 witness: a resting order with another order behind it at its price was filled
\* in part and now stands behind that order.
C22_Witness ==
    \E i \in TradeEvents :
        /\ Len(events[i].level) >= 2
        /\ events[i].maker.position_size > trade_history[events[i].trade].quantity
        /\ events[i].level_after[1] = events[i].level[2]
        /\ events[i].level_after[Len(events[i].level_after)].oid = events[i].maker.oid

\* the orders of a queue that do not carry the label MarketMaker, in their order
RECURSIVE NonMakerOrders(_)
NonMakerOrders(q) ==
    IF q = <<>> THEN <<>>
    ELSE IF Head(q).trader_type = "MarketMaker" THEN NonMakerOrders(Tail(q))
    ELSE <<Head(q)>> \o NonMakerOrders(Tail(q))

\* a book side after the clearing, against the side before it
ClearedFrom(after, before) ==
    /\ \A p \in DOMAIN before \cup DOMAIN after :
          QueueAt(after, p) = NonMakerOrders(QueueAt(before, p))
    /\ \A p \in DOMAIN after : after[p] # <<>>

\* C23: the clearing at the beginning of tick() takes out of both sides exactly the
\* resting orders labelled MarketMaker: at every price the queue afterwards is the
\* queue before without those orders, every other order unchanged and in the same
\* relative order.
C23_MakerClearing ==
    [][(pc = "start" /\ pc' # "start")
          => ClearedFrom(buys', buys) /\ ClearedFrom(sells', sells)]_vars

\* C23 witness: right after the clearing of a later tick, two traders' orders of the
\* tick before stand, in the order they were submitted in, at the price where the
\* market maker's untouched bid stood in front of them, and no maker order rests.
C23_Witness ==
    /\ pc = "makers"
    /\ acted = <<>>
    /\ timestep >= 1
    /\ trade_history = <<>>
    /\ \A r \in Resting : r.trader_type # "MarketMaker"
    /\ \E p \in DOMAIN buys :
          /\ p = market_price - spread \div 2
          /\ Len(buys[p]) = 2
          /\ buys[p][1].oid < buys[p][2].oid
          /\ buys[p][1].born = timestep - 1
          /\ buys[p][2].born = timestep - 1

\* C24: in every state market_price is the price of the trade appended last, or the
\* configured initial price while the trade history is empty; and a step that appends
\* no trade leaves market_price as it is.
C24_MarketPriceIsLastExecution ==
    /\ [](market_price = IF trade_history = <<>> THEN initial_price
                         ELSE trade_history[Len(trade_history)].price)
    /\ [][trade_history' = trade_history => market_price' = market_price]_vars

\* C24 witness: two trades at different prices have been appended and market_price is
\* the price of the later one.
C24_Witness ==
    /\ Len(trade_history) >= 2
    /\ trade_history[Len(trade_history)].price
          # trade_history[Len(trade_history) - 1].price
    /\ market_price = trade_history[Len(trade_history)].price

\* C25: the tick history has one entry per completed tick, the entry of the n-th tick
\* carrying the time step n; the end of a tick, and no other step, advances the time
\* step counter, by exactly one, and appends exactly one entry; the tick history and
\* the trade history only grow at their end.
C25_TickAccounting ==
    /\ [](/\ Len(tick_history) = timestep
          /\ \A i \in 1..Len(tick_history) : tick_history[i].timestep = i)
    /\ [][/\ IsPrefix(tick_history, tick_history')
          /\ IsPrefix(trade_history, trade_history')
          /\ pc = "finish" => /\ timestep' = timestep + 1
                              /\ Len(tick_history') = Len(tick_history) + 1
          /\ pc # "finish" => /\ timestep' = timestep
                              /\ tick_history' = tick_history]_vars

\* C25 witness: after several ticks, with trades made, the tick history has one entry
\* per tick.
C25_Witness ==
    /\ pc = "start"
    /\ timestep >= 2
    /\ Len(tick_history) = timestep
    /\ tick_history[timestep].timestep = timestep
    /\ tick_history[timestep].volume > 0
    /\ Len(trade_history) >= 2

\* C26: after every call of process_aggressive_order and after the clearing of the
\* market makers' orders, that is in every state, the best bid is strictly below the
\* best ask whenever both sides hold orders.
C26_UncrossedBook ==
    (DOMAIN buys # {} /\ DOMAIN sells # {}) => BestBidLevel(buys) < BestAskLevel(sells)

\* C26 witness: an order that crossed the other side has traded and rests with what
\* is left, both sides hold orders, and the best bid is below the best ask.
C26_Witness ==
    /\ last.crossing
    /\ TradeEvents # {}
    /\ RestingFor(submitted[last.oid]) > 0
    /\ DOMAIN buys # {}
    /\ DOMAIN sells # {}
    /\ BestBidLevel(buys) < BestAskLevel(sells)

\* the ids of the agents the last evolution event replaced
KilledIds == {evolution.to_kill[k] : k \in 1..Len(evolution.to_kill)}

\* C27, as claimed: a trade made after an evolution event with a resting order that a
\* replaced agent had submitted before the event leaves the ledger of the replacement,
\* the agent now holding that id, as it is.
C27_ReplacementLedgerIsolated ==
    \A i \in TradeEvents :
        LET e == events[i]
        IN  (/\ evolution.time > 0
             /\ e.now >= evolution.time
             /\ e.maker.trader_id \in KilledIds
             /\ e.maker.born < evolution.time)
            => \A s \in 1..Len(e.before.traders) :
                   e.before.traders[s].trader_id = e.maker.trader_id
                       => e.after.traders[s] = e.before.traders[s]

\* the roster slots of agent `id` in the ledgers trs
SlotsOf(trs, id) == {s \in 1..Len(trs) : trs[s].trader_id = id}

\* C28, as claimed: a trade of quantity q at price p takes p * q from the buyer's cash
\* and adds q to its position, adds p * q to the seller's cash and takes q from its
\* position, so that the value position * p + cash of each trader counterparty is the
\* same before and after the trade.
C28_ValueNeutralExecution ==
    \A i \in TradeEvents :
        LET e == events[i]
            t == trade_history[e.trade]
            b == e.before.traders
            a == e.after.traders
        IN  /\ \A s \in SlotsOf(b, t.buyer_id) :
                  /\ a[s].cash = b[s].cash - t.price * t.quantity
                  /\ a[s].position = b[s].position + t.quantity
                  /\ get_value(a[s], t.price) = get_value(b[s], t.price)
            /\ \A s \in SlotsOf(b, t.seller_id) :
                  /\ a[s].cash = b[s].cash + t.price * t.quantity
                  /\ a[s].position = b[s].position - t.quantity
                  /\ get_value(a[s], t.price) = get_value(b[s], t.price)

\* C29 (as stated): with SELL orders submitted only when the trader's position at the
\* time of the decision covers the order's quantity, no trader's position is ever
\* negative, also when one trader has several SELL orders resting at once.
C29_NoShortPositions ==
    \A i \in 1..Len(traders) : traders[i].position >= 0

\* iteration i of the last call took one resting order off the book
RemovesResting(i) == events[i].level_after = Tail(events[i].level)
\* iteration i left nothing of the incoming order
ExhaustsIncoming(i) == events[i].rem_after.position_size = 0

\* C30: a call of process_aggressive_order ends; each iteration of its matching loop
\* takes one resting order off the book or brings the incoming order's remaining
\* quantity to zero, and the call makes at most as many iterations as there were
\* orders resting on the opposite side, plus one.
C30_MatchingTerminates ==
    last.oid > 0 =>
        /\ Len(events) <= last.opposite_before + 1
        /\ \A i \in 1..Len(events) : RemovesResting(i) \/ ExhaustsIncoming(i)

\* a call of two iterations: the first fills a resting order whole and takes it off
\* the book, the second fills a part of the next one and leaves nothing of the
\* incoming order
C30_Witness ==
    /\ last.oid > 0
    /\ Len(events) = 2
    /\ events[1].kind = "trade"
    /\ RemovesResting(1) /\ ~ExhaustsIncoming(1)
    /\ events[2].kind = "trade"
    /\ ExhaustsIncoming(2) /\ ~RemovesResting(2)

====
